---- MODULE Spec2Model ----
(***************************************************************************)
(* Verification model of libaio-rust's foundation layer:                   *)
(*   - pool.rs    : Pool<T>, a fixed size slot allocator with an embedded  *)
(*                  freelist (SlotPool in the specification);              *)
(*   - aligned.rs : AlignedBuf, alignment padded memory with an allocated  *)
(*                  length and a valid length (AlignedBuffer).             *)
(* Spec    is the state machine of one Pool, SpecBuf that of AlignedBuf.   *)
(***************************************************************************)
EXTENDS Integers, Sequences, FiniteSets, TLC

\* ------------------------------------------------------------------ bounds
MaxCap == 3        \* largest size passed to Pool::new
MaxVal == 1        \* stored values T are 0..MaxVal
WordBits == 3      \* width of usize in the model
HeapBytes == 2     \* largest request the external aligned allocator can serve
MaxByte == 1       \* bytes of buffer memory are 0..MaxByte

\* ------------------------------------------------------ the pool's storage
Stride == 2        \* size_of::<Slot<T>>() in model bytes
Origin == 2        \* address of the pool's backing storage, pool.as_ptr()

WordMod == 2 ^ WordBits
UsizeMax == WordMod - 1
Values == 0 .. MaxVal
Caps == 1 .. MaxCap
Indices == 0 .. MaxCap
Addrs == 0 .. (Origin + (MaxCap + 1) * Stride)
Usize == 0 .. UsizeMax
Bytes == 0 .. MaxByte
\* Sizes and offsets passed in: those the allocator can serve, one it cannot,
\* and the two at the top of the word, where rounding up overflows
Sizes == (0 .. HeapBytes + 1) \cup {UsizeMax - 1, UsizeMax}
\* Alignments passed in: 0, the small ones, and the largest power of two
Aligns == (0 .. HeapBytes + 1) \cup {2 ^ (WordBits - 1)}

\* ------------------------------------------------------------------- state
VARIABLES
    pool,       \* Pool.pool : Vec<Slot<T>>, here a function 0..len-1 -> Slot
    freelist,   \* Pool.freelist
    used,       \* Pool.used
    next,       \* Pool.next, the allocation cursor
    panic,      \* "" while running, else the reason the last call was fatal
    lastOp,     \* the operation of the last call
    lastArg,    \* its index / address argument (0 when it has none)
    lastVal,    \* its value argument (0 when it has none)
    lastRet,    \* what it returned
    prevFreed,  \* the index freed by the call before it, when that call was
                \* a freeidx that returned, NoIdx otherwise
    stored,     \* per index the value most recently stored in the slot since
                \* it was handed out, NoVal while it is not handed out
    fresh       \* k while the only calls since new() were k allocidx calls,
                \* NotFresh afterwards

VARIABLES
    abuf,       \* the AlignedBuf in use, Option<AlignedBuf>
    cbuf,       \* the result of clone() while the caller still holds it
    bpanic,     \* "" while running, else the reason the last call was fatal
    bOp,        \* the AlignedBuf operation of the last call
    bArg        \* its <<size, align>> arguments; for from_slice <<data.len(),
                \* align, data>>; for rdupdate <<v, 0>>, v the valid length
                \* before the call; <<0, 0>> for the others

\* The #[repr(C)] layout of a struct of aioabi.rs, one field at a time
VARIABLES
    layout      \* [name, fields, pos, offset, align, padding, size, done]

bvars == <<abuf, cbuf, bpanic, bOp, bArg>>

pvars == <<pool, freelist, used, next, panic, lastOp, lastArg, lastVal, lastRet, prevFreed, stored, fresh>>

\* ------------------------------------------------- aioabi.rs: struct layout
\* Most fields of a struct whose layout is explored besides the two of aioabi.rs
MaxFields == 3

\* size_of of the integer types; each is aligned to its size
u8 == 1
u16 == 2
i16 == 2
u32 == 4
u64 == 8
i64 == 8

Widths == {u8, u16, u32, u64}

\* Struct_iocb with aio_fildes declared u64
Struct_iocb_widefd ==
    << u64,             \* data
       u32, u32,        \* key, aio_reserved1
       u16, i16, u64,   \* aio_lio_opcode, aio_reqprio, aio_fildes
       u64, u64, i64,   \* aio_buf, aio_count, aio_offset
       u64,             \* aio_reserved2
       u32, u32 >>      \* aio_flags, aio_resfd

\* Struct_iocb: the types of its fields in declaration order
Struct_iocb ==
    << u64,             \* data
       u32, u32,        \* key, aio_reserved1
       u16, i16, u32,   \* aio_lio_opcode, aio_reqprio, aio_fildes
       u64, u64, i64,   \* aio_buf, aio_count, aio_offset
       u64,             \* aio_reserved2
       u32, u32 >>      \* aio_flags, aio_resfd

\* Struct_io_event: data, obj, res, res2
Struct_io_event == << u64, u64, i64, i64 >>

\* A layout that has placed nothing yet
StartLayout(name, fields) ==
    [name |-> name, fields |-> fields, pos |-> 0, offset |-> 0, align |-> 1,
     padding |-> 0, size |-> 0, done |-> FALSE]

\* No struct is being laid out
NoLayout == StartLayout("", <<>>)

\* The structs whose layout is explored
Layouts ==
    {StartLayout("Struct_iocb", Struct_iocb),
     StartLayout("Struct_io_event", Struct_io_event)}
    \cup {StartLayout("other", f) : f \in UNION {[1 .. n -> Widths] : n \in 0 .. MaxFields}}

\* The least multiple of a that is >= n
AlignUp(n, a) == ((n + a - 1) \div a) * a

Max(a, b) == IF a >= b THEN a ELSE b

\* repr(C): the next field goes to the first offset that is a multiple of its
\* alignment
place_field(l) ==
    LET w == l.fields[l.pos + 1]
        start == AlignUp(l.offset, w)
    IN [l EXCEPT !.pos = l.pos + 1,
                 !.offset = start + w,
                 !.align = Max(l.align, w),
                 !.padding = l.padding + (start - l.offset)]

\* repr(C): the size of the struct is the end of its last field rounded up to
\* the alignment of the struct, the largest of its fields'
size_of(l) ==
    LET sz == AlignUp(l.offset, l.align)
    IN [l EXCEPT !.size = sz,
                 !.padding = l.padding + (sz - l.offset),
                 !.done = TRUE]

NotFresh == 0 - 1

NoVal == 0 - 1

NoIdx == 0 - 1

\* Slot<T>: Free(next index) | Alloc(value)
Free(n) == [tag |-> "Free", v |-> n]
Alloc(t) == [tag |-> "Alloc", v |-> t]

\* Return values
Ok(i) == [kind |-> "Ok", v |-> i]
Err(t) == [kind |-> "Err", v |-> t]
Val(t) == [kind |-> "Val", v |-> t]
Unit == [kind |-> "Unit", v |-> 0]
Diverged == [kind |-> "Panic", v |-> 0]

\* The Pool value held in the variables
Self == [pool |-> pool, freelist |-> freelist, used |-> used, next |-> next]

len(p) == Cardinality(DOMAIN p.pool)

\* Outcome of a call: the pool it leaves, the value returned, the panic raised
Done(p, r) == [p |-> p, ret |-> r, panic |-> ""]
Fatal(p, msg) == [p |-> p, ret |-> Diverged, panic |-> msg]

\* new() with the cursor started at the last slot instead of slot 0
new_cursorlast(size) ==
    [pool |-> [i \in 0 .. size - 1 |-> Free(i + 1)],
     freelist |-> size - 1,
     used |-> 0,
     next |-> size - 1]

\* Pool::new(size), size > 0
new(size) ==
    [pool |-> [i \in 0 .. size - 1 |-> Free(i + 1)],
     freelist |-> size - 1,
     used |-> 0,
     next |-> 0]

\* Pool::limit / used / avail
limit(p) == len(p)

usedOf(p) == p.used

avail(p) == limit(p) - usedOf(p)

\* allocidx() that forgets to count the allocation
allocidx_nocount(p, init) ==
    LET idx == p.next IN
    IF idx >= len(p)
    THEN Done(p, Err(init))
    ELSE IF p.pool[idx].tag = "Alloc"
         THEN Fatal(p, "Pool slot already contains a value")
         ELSE Done([p EXCEPT !.next = p.pool[idx].v,
                             !.pool = [p.pool EXCEPT ![idx] = Alloc(init)]],
                   Ok(idx))

\* allocidx() whose exhaustion test is off by one and refuses the last slot
allocidx_offbyone(p, init) ==
    LET idx == p.next IN
    IF idx + 1 >= len(p)
    THEN Done(p, Err(init))
    ELSE IF p.pool[idx].tag = "Alloc"
         THEN Fatal(p, "Pool slot already contains a value")
         ELSE Done([p EXCEPT !.next = p.pool[idx].v,
                             !.pool = [p.pool EXCEPT ![idx] = Alloc(init)],
                             !.used = (p.used + 1) % WordMod],
                   Ok(idx))

\* allocidx() that counts the allocation before it tests for exhaustion
allocidx_countfail(p, init) ==
    LET idx == p.next IN
    IF idx >= len(p)
    THEN Done([p EXCEPT !.used = (p.used + 1) % WordMod], Err(init))
    ELSE IF p.pool[idx].tag = "Alloc"
         THEN Fatal(p, "Pool slot already contains a value")
         ELSE Done([p EXCEPT !.next = p.pool[idx].v,
                             !.pool = [p.pool EXCEPT ![idx] = Alloc(init)],
                             !.used = (p.used + 1) % WordMod],
                   Ok(idx))

\* allocidx() that leaves the cursor on the slot it has just filled
allocidx_keepcursor(p, init) ==
    LET idx == p.next IN
    IF idx >= len(p)
    THEN Done(p, Err(init))
    ELSE IF p.pool[idx].tag = "Alloc"
         THEN Fatal(p, "Pool slot already contains a value")
         ELSE Done([p EXCEPT !.pool = [p.pool EXCEPT ![idx] = Alloc(init)],
                             !.used = (p.used + 1) % WordMod],
                   Ok(idx))

\* Pool::allocidx
allocidx(p, init) ==
    LET idx == p.next IN
    IF idx >= len(p)
    THEN Done(p, Err(init))
    ELSE IF p.pool[idx].tag = "Alloc"
         THEN Fatal(p, "Pool slot already contains a value")
         ELSE Done([p EXCEPT !.next = p.pool[idx].v,
                             !.pool = [p.pool EXCEPT ![idx] = Alloc(init)],
                             !.used = (p.used + 1) % WordMod],
                   Ok(idx))

\* freeidx() that links the freed slot to itself instead of the old cursor
freeidx_selflink(p, idx, overflowChecks) ==
    IF ~(idx < len(p))
    THEN Fatal(p, "assertion failed: idx < self.pool.len()")
    ELSE IF p.used = 0 /\ overflowChecks
    THEN Fatal(p, "attempt to subtract with overflow")
    ELSE LET p1 == [p EXCEPT !.used = (p.used - 1) % WordMod]
             old == p1.pool[idx]
             p2 == [p1 EXCEPT !.pool = [p1.pool EXCEPT ![idx] = Free(idx)]]
         IN IF old.tag = "Alloc"
            THEN Done([p2 EXCEPT !.next = idx], Val(old.v))
            ELSE Fatal(p2, "Freeing free entry")

\* freeidx() that leaves the cursor where it was
freeidx_nocursor(p, idx, overflowChecks) ==
    IF ~(idx < len(p))
    THEN Fatal(p, "assertion failed: idx < self.pool.len()")
    ELSE IF p.used = 0 /\ overflowChecks
    THEN Fatal(p, "attempt to subtract with overflow")
    ELSE LET nxt == p.next
             p1 == [p EXCEPT !.used = (p.used - 1) % WordMod]
             old == p1.pool[idx]
             p2 == [p1 EXCEPT !.pool = [p1.pool EXCEPT ![idx] = Free(nxt)]]
         IN IF old.tag = "Alloc"
            THEN Done(p2, Val(old.v))
            ELSE Fatal(p2, "Freeing free entry")

\* freeidx() that returns what it put into the slot instead of what it took out
freeidx_swapped(p, idx, overflowChecks) ==
    IF ~(idx < len(p))
    THEN Fatal(p, "assertion failed: idx < self.pool.len()")
    ELSE IF p.used = 0 /\ overflowChecks
    THEN Fatal(p, "attempt to subtract with overflow")
    ELSE LET nxt == p.next
             p1 == [p EXCEPT !.used = (p.used - 1) % WordMod]
             old == p1.pool[idx]
             p2 == [p1 EXCEPT !.pool = [p1.pool EXCEPT ![idx] = Free(nxt)]]
         IN IF old.tag = "Alloc"
            THEN Done([p2 EXCEPT !.next = idx], Val(p2.pool[idx].v))
            ELSE Fatal(p2, "Freeing free entry")

\* Pool::freeidx.  overflowChecks is the build's integer overflow mode: with
\* checks `self.used -= 1` panics at 0, without them it wraps.
freeidx(p, idx, overflowChecks) ==
    IF ~(idx < len(p))
    THEN Fatal(p, "assertion failed: idx < self.pool.len()")
    ELSE IF p.used = 0 /\ overflowChecks
    THEN Fatal(p, "attempt to subtract with overflow")
    ELSE LET nxt == p.next
             p1 == [p EXCEPT !.used = (p.used - 1) % WordMod]
             old == p1.pool[idx]
             p2 == [p1 EXCEPT !.pool = [p1.pool EXCEPT ![idx] = Free(nxt)]]
         IN IF old.tag = "Alloc"
            THEN Done([p2 EXCEPT !.next = idx], Val(old.v))
            ELSE Fatal(p2, "Freeing free entry")

\* freeptr() whose division rounds up
freeptr_roundup(p, ptr, overflowChecks) ==
    IF ~(ptr >= Origin)
    THEN Fatal(p, "assertion failed: ptr >= self.pool.as_ptr()")
    ELSE LET idx == (ptr - Origin + Stride - 1) \div Stride
         IN freeidx(p, idx, overflowChecks)

\* Pool::freeptr: the slot index is the byte distance from the storage origin
\* divided by the slot size, rounded down
freeptr(p, ptr, overflowChecks) ==
    IF ~(ptr >= Origin)
    THEN Fatal(p, "assertion failed: ptr >= self.pool.as_ptr()")
    ELSE LET idx == (ptr - Origin) \div Stride
         IN freeidx(p, idx, overflowChecks)

\* Index<usize> for Pool
index(p, idx) ==
    IF ~(idx < len(p))
    THEN Fatal(p, "index out of bounds")
    ELSE IF p.pool[idx].tag = "Free"
         THEN Fatal(p, "access free index")
         ELSE Done(p, Val(p.pool[idx].v))

\* index_mut() that hands out a Free slot
index_mut_nocheck(p, idx, t) ==
    IF ~(idx < len(p))
    THEN Fatal(p, "index out of bounds")
    ELSE Done([p EXCEPT !.pool = [p.pool EXCEPT ![idx] = Alloc(t)]], Unit)

\* IndexMut<usize> for Pool, followed by the store through the reference
index_mut(p, idx, t) ==
    IF ~(idx < len(p))
    THEN Fatal(p, "index out of bounds")
    ELSE IF p.pool[idx].tag = "Free"
         THEN Fatal(p, "access free index")
         ELSE Done([p EXCEPT !.pool = [p.pool EXCEPT ![idx] = Alloc(t)]], Unit)


\* --------------------------------------------------------------- AlignedBuf
\* usize bit operations
RECURSIVE BitAnd(_, _)
BitAnd(a, b) ==
    IF a = 0 \/ b = 0
    THEN 0
    ELSE (a % 2) * (b % 2) + 2 * BitAnd(a \div 2, b \div 2)

BitNot(a) == UsizeMax - a

\* Option<AlignedBuf>: None, or Some of the fields align, len, valid and the
\* bytes buf points to
None == [some |-> FALSE, align |-> 0, len |-> 0, valid |-> 0, mem |-> <<>>]
Some(al, ln, vl, m) == [some |-> TRUE, align |-> al, len |-> ln, valid |-> vl, mem |-> m]

\* Outcome of an AlignedBuf call: the buffer produced, the panic raised
BDone(b) == [b |-> b, panic |-> ""]
BFatal(msg) == [b |-> None, panic |-> msg]

\* aligned_alloc::aligned_alloc(sz, align): null, or sz bytes of arbitrary
\* content
aligned_alloc(sz, al) ==
    {[null |-> TRUE, mem |-> <<>>]} \cup
    (IF sz <= HeapBytes
     THEN {[null |-> FALSE, mem |-> m] : m \in [1 .. sz -> Bytes]}
     ELSE {})

\* a power-of-two test that only looks at the lowest bit
ispower2_even(n) == n % 2 = 0

\* ispower2
ispower2(n) == BitAnd(n, (n - 1) % WordMod) = 0

\* the rounding without its `- 1`: a multiple of align is rounded to the next
roundup_nominus1(size, al) ==
    BitAnd((size + al) % WordMod, BitNot(al - 1))

\* (size + align - 1) & !(align - 1), in wrapping usize arithmetic
roundup(size, al) ==
    BitAnd((((size + al) % WordMod) - 1) % WordMod, BitNot(al - 1))

\* alloc_uninit() without its assertion sz >= size
alloc_uninit_nocheck(size, al, overflowChecks) ==
    IF ~(al > 0)
    THEN {BFatal("assertion failed: align > 0")}
    ELSE IF ~ispower2(al)
    THEN {BFatal("assertion failed: ispower2(align)")}
    ELSE IF overflowChecks /\ size + al > UsizeMax
    THEN {BFatal("attempt to add with overflow")}
    ELSE LET sz == roundup(size, al)
         IN IF ~(sz % al = 0)
            THEN {BFatal("assertion failed: sz % align == 0")}
            ELSE {IF p.null THEN BDone(None) ELSE BDone(Some(al, sz, 0, p.mem)) :
                      p \in aligned_alloc(sz, al)}

\* AlignedBuf::alloc_uninit; the set of its possible outcomes
alloc_uninit(size, al, overflowChecks) ==
    IF ~(al > 0)
    THEN {BFatal("assertion failed: align > 0")}
    ELSE IF ~ispower2(al)
    THEN {BFatal("assertion failed: ispower2(align)")}
    ELSE IF overflowChecks /\ size + al > UsizeMax
    THEN {BFatal("attempt to add with overflow")}
    ELSE LET sz == roundup(size, al)
         IN IF ~(sz >= size)
            THEN {BFatal("assertion failed: sz >= size")}
            ELSE IF ~(sz % al = 0)
            THEN {BFatal("assertion failed: sz % align == 0")}
            ELSE {IF p.null THEN BDone(None) ELSE BDone(Some(al, sz, 0, p.mem)) :
                      p \in aligned_alloc(sz, al)}

\* ptr::write_bytes(b.buf + from, byte, count)
write_bytes(m, from, byte, count) ==
    [k \in DOMAIN m |-> IF k - 1 >= from /\ k - 1 < from + count THEN byte ELSE m[k]]

\* ptr::copy_nonoverlapping(src, dst, count)
copy_nonoverlapping(src, dst, count) ==
    [k \in DOMAIN dst |-> IF k <= count THEN src[k] ELSE dst[k]]

\* AlignedBuf::alloc
alloc(size, al, overflowChecks) ==
    {IF o.panic # "" \/ ~o.b.some
     THEN o
     ELSE BDone([o.b EXCEPT !.mem = write_bytes(o.b.mem, 0, 0, o.b.len),
                            !.valid = o.b.len]) :
         o \in alloc_uninit(size, al, overflowChecks)}

\* from_slice() that leaves the rounding padding as allocated
from_slice_nopad(data, al, overflowChecks) ==
    {IF o.panic # "" \/ ~o.b.some
     THEN o
     ELSE LET m1 == copy_nonoverlapping(data, o.b.mem, Len(data))
          IN IF Len(data) # o.b.len
             THEN IF ~(o.b.len > Len(data))
                  THEN BFatal("assertion failed: b.len > data.len()")
                  ELSE BDone([o.b EXCEPT !.mem = m1, !.valid = o.b.len])
             ELSE BDone([o.b EXCEPT !.mem = m1, !.valid = o.b.len]) :
         o \in alloc_uninit(Len(data), al, overflowChecks)}

\* AlignedBuf::from_slice
from_slice(data, al, overflowChecks) ==
    {IF o.panic # "" \/ ~o.b.some
     THEN o
     ELSE LET m1 == copy_nonoverlapping(data, o.b.mem, Len(data))
          IN IF Len(data) # o.b.len
             THEN IF ~(o.b.len > Len(data))
                  THEN BFatal("assertion failed: b.len > data.len()")
                  ELSE BDone([o.b EXCEPT
                                 !.mem = write_bytes(m1, Len(data), 0, o.b.len - Len(data)),
                                 !.valid = o.b.len])
             ELSE BDone([o.b EXCEPT !.mem = m1, !.valid = o.b.len]) :
         o \in alloc_uninit(Len(data), al, overflowChecks)}

\* Clone for AlignedBuf
clone(self, overflowChecks) ==
    IF ~(self.valid <= self.len)
    THEN {BFatal("assertion failed: self.valid <= self.len")}
    ELSE {IF o.panic # ""
          THEN o
          ELSE IF ~o.b.some
          THEN BFatal("clone failed")
          ELSE IF o.b.valid > 0
               THEN BDone([o.b EXCEPT
                              !.mem = copy_nonoverlapping(self.mem, o.b.mem, o.b.valid),
                              !.valid = self.valid])
               ELSE BDone(o.b) :
              o \in alloc_uninit(self.len, self.align, overflowChecks)}

\* RdBuf::rdbuf for AlignedBuf: the whole allocation, writable
rdbuf(self) ==
    IF ~(self.valid <= self.len)
    THEN [view |-> <<>>, panic |-> "assertion failed: self.valid <= self.len"]
    ELSE [view |-> self.mem, panic |-> ""]

\* rdupdate() without the bound on the new valid length
rdupdate_noassert(self, base, n, overflowChecks) ==
    IF ~(self.valid <= self.len)
    THEN BFatal("assertion failed: self.valid <= self.len")
    ELSE IF ~(base <= self.valid)
    THEN BDone(self)
    ELSE IF overflowChecks /\ base + n > UsizeMax
    THEN BFatal("attempt to add with overflow")
    ELSE LET end == (base + n) % WordMod
         IN IF end > self.valid
            THEN BDone([self EXCEPT !.valid = end])
            ELSE BDone(self)

\* rdupdate() that takes a range past the valid frontier as contiguous
rdupdate_gap(self, base, n, overflowChecks) ==
    IF ~(self.valid <= self.len)
    THEN BFatal("assertion failed: self.valid <= self.len")
    ELSE IF overflowChecks /\ base + n > UsizeMax
    THEN BFatal("attempt to add with overflow")
    ELSE LET end == (base + n) % WordMod
         IN IF end > self.valid
            THEN IF ~(end <= self.len)
                 THEN BFatal("assertion failed: base+len <= self.len")
                 ELSE BDone([self EXCEPT !.valid = end])
            ELSE BDone(self)

\* RdBuf::rdupdate for AlignedBuf
rdupdate(self, base, n, overflowChecks) ==
    IF ~(self.valid <= self.len)
    THEN BFatal("assertion failed: self.valid <= self.len")
    ELSE IF ~(base <= self.valid)
    THEN BDone(self)
    ELSE IF overflowChecks /\ base + n > UsizeMax
    THEN BFatal("attempt to add with overflow")
    ELSE LET end == (base + n) % WordMod
         IN IF end > self.valid
            THEN IF ~(end <= self.len)
                 THEN BFatal("assertion failed: base+len <= self.len")
                 ELSE BDone([self EXCEPT !.valid = end])
            ELSE BDone(self)

\* WrBuf::wrbuf for AlignedBuf: the valid prefix, read only
wrbuf(self) ==
    IF ~(self.valid <= self.len)
    THEN [view |-> <<>>, panic |-> "assertion failed: self.valid <= self.len"]
    ELSE [view |-> SubSeq(self.mem, 1, self.valid), panic |-> ""]

\* AlignedBuf::as_slice
as_slice(self) == wrbuf(self)

\* RdBuf::rdbuf for Box<T>, T = AlignedBuf.  The body is `(*self).rdbuf()`:
\* the receiver *self is the Box<T>, method lookup takes it by &mut before it
\* dereferences it, so the call is to this same method and never returns.
box_rdbuf(self) ==
    [view |-> <<>>, panic |-> "stack overflow: rdbuf for Box<T> calls itself"]

\* RdBuf::rdupdate for Box<T>: the impl does not define it, so it is the
\* trait's default body `{}`
box_rdupdate(self, base, n) == BDone(self)

\* WrBuf::wrbuf for Box<T>: `(*self).wrbuf()`, the same method again
box_wrbuf(self) ==
    [view |-> <<>>, panic |-> "stack overflow: wrbuf for Box<T> calls itself"]

\* ----------------------------------------------------------------- actions
\* No AlignedBuf allocated yet
NoBuffers ==
    /\ abuf = None
    /\ cbuf = None
    /\ bpanic = ""
    /\ bOp = "none"
    /\ bArg = <<0, 0>>

Init ==
    \E size \in Caps :
        /\ NoBuffers
        /\ pool = new(size).pool
        /\ freelist = new(size).freelist
        /\ used = new(size).used
        /\ next = new(size).next
        /\ panic = ""
        /\ lastOp = "new"
        /\ lastArg = size
        /\ lastVal = 0
        /\ lastRet = Unit
        /\ prevFreed = NoIdx
        /\ stored = [i \in 0 .. size - 1 |-> NoVal]
        /\ fresh = 0
        /\ layout = NoLayout

\* The variables after a call with outcome r
Commit(r, op, arg, val) ==
    /\ pool' = r.p.pool
    /\ freelist' = r.p.freelist
    /\ used' = r.p.used
    /\ next' = r.p.next
    /\ panic' = r.panic
    /\ lastOp' = op
    /\ lastArg' = arg
    /\ lastVal' = val
    /\ lastRet' = r.ret
    /\ prevFreed' = IF lastOp = "freeidx" /\ lastRet.kind = "Val" THEN lastArg ELSE NoIdx
    /\ stored' = IF op = "allocidx" /\ r.ret.kind = "Ok"
                  THEN [stored EXCEPT ![r.ret.v] = val]
                  ELSE IF op = "index_mut" /\ r.panic = ""
                  THEN [stored EXCEPT ![arg] = val]
                  ELSE IF op = "freeidx" /\ r.ret.kind = "Val"
                  THEN [stored EXCEPT ![arg] = NoVal]
                  ELSE IF op = "freeptr" /\ r.ret.kind = "Val"
                  THEN [stored EXCEPT ![(arg - Origin) \div Stride] = NoVal]
                  ELSE stored
    /\ UNCHANGED <<bvars, layout>>

AllocIdx ==
    /\ panic = ""
    /\ \E init \in Values : Commit(allocidx(Self, init), "allocidx", 0, init)
    /\ fresh' = IF fresh # NotFresh /\ fresh <= len(Self) THEN fresh + 1 ELSE NotFresh

FreeIdx ==
    /\ panic = ""
    /\ \E idx \in Indices, oc \in BOOLEAN :
           Commit(freeidx(Self, idx, oc), "freeidx", idx, 0)
    /\ fresh' = NotFresh

FreePtr ==
    /\ panic = ""
    /\ \E ptr \in Addrs, oc \in BOOLEAN :
           Commit(freeptr(Self, ptr, oc), "freeptr", ptr, 0)
    /\ fresh' = NotFresh

IndexRead ==
    /\ panic = ""
    /\ \E idx \in Indices : Commit(index(Self, idx), "index", idx, 0)
    /\ fresh' = NotFresh

IndexWrite ==
    /\ panic = ""
    /\ \E idx \in Indices, t \in Values :
           Commit(index_mut(Self, idx, t), "index_mut", idx, t)
    /\ fresh' = NotFresh

Next ==
    \/ AllocIdx
    \/ FreeIdx
    \/ FreePtr
    \/ IndexRead
    \/ IndexWrite

vars == <<pvars, bvars, layout>>

Spec == Init /\ [][Next]_vars

\* ------------------------------------------------------ AlignedBuf actions
\* Byte sequences handed to from_slice
Datas == UNION {[1 .. n -> Bytes] : n \in 0 .. HeapBytes}

InitBuf ==
    /\ NoBuffers
    /\ pool = new(1).pool
    /\ freelist = new(1).freelist
    /\ used = new(1).used
    /\ next = new(1).next
    /\ panic = ""
    /\ lastOp = "new"
    /\ lastArg = 1
    /\ lastVal = 0
    /\ lastRet = Unit
    /\ prevFreed = NoIdx
    /\ stored = [i \in 0 .. 0 |-> NoVal]
    /\ fresh = 0
    /\ layout = NoLayout

\* The variables after an allocation with outcome o; the buffer held before,
\* and a clone still held, are dropped
BCommit(o, op, arg) ==
    /\ abuf' = o.b
    /\ cbuf' = None
    /\ bpanic' = o.panic
    /\ bOp' = op
    /\ bArg' = arg
    /\ UNCHANGED <<pvars, layout>>

AllocUninit ==
    /\ bpanic = ""
    /\ \E size \in Sizes, al \in Aligns, oc \in BOOLEAN :
           \E o \in alloc_uninit(size, al, oc) : BCommit(o, "alloc_uninit", <<size, al>>)

AllocZeroed ==
    /\ bpanic = ""
    /\ \E size \in Sizes, al \in Aligns, oc \in BOOLEAN :
           \E o \in alloc(size, al, oc) : BCommit(o, "alloc", <<size, al>>)

FromSlice ==
    /\ bpanic = ""
    /\ \E data \in Datas, al \in Aligns, oc \in BOOLEAN :
           \E o \in from_slice(data, al, oc) : BCommit(o, "from_slice", <<Len(data), al, data>>)

\* b.clone(): the source stays as it is, the clone is held next to it
Clone ==
    /\ bpanic = ""
    /\ abuf.some
    /\ \E oc \in BOOLEAN :
           \E o \in clone(abuf, oc) :
               /\ cbuf' = o.b
               /\ bpanic' = o.panic
    /\ bOp' = "clone"
    /\ bArg' = <<0, 0>>
    /\ UNCHANGED <<abuf, pvars, layout>>

\* Drop for AlignedBuf, of the source of a clone: the clone is the buffer in
\* use from here on
DropSource ==
    /\ bpanic = ""
    /\ cbuf.some
    /\ abuf' = cbuf
    /\ cbuf' = None
    /\ bOp' = "drop"
    /\ bArg' = <<0, 0>>
    /\ UNCHANGED <<bpanic, pvars, layout>>

\* b.rdbuf()[i] = byte: a fill writes one byte of the fillable view
RdBufWrite ==
    /\ bpanic = ""
    /\ abuf.some
    /\ LET r == rdbuf(abuf) IN
       IF r.panic # ""
       THEN /\ bpanic' = r.panic
            /\ UNCHANGED abuf
       ELSE /\ \E i \in DOMAIN r.view, byte \in Bytes :
                   abuf' = [abuf EXCEPT !.mem = [r.view EXCEPT ![i] = byte]]
            /\ UNCHANGED bpanic
    /\ cbuf' = None
    /\ bOp' = "rdbuf"
    /\ bArg' = <<0, 0>>
    /\ UNCHANGED <<pvars, layout>>

RdUpdate ==
    /\ bpanic = ""
    /\ abuf.some
    /\ \E base \in Sizes, n \in Usize, oc \in BOOLEAN :
           LET o == rdupdate(abuf, base, n, oc) IN
           /\ abuf' = IF o.panic = "" THEN o.b ELSE abuf
           /\ bpanic' = o.panic
    /\ cbuf' = None
    /\ bOp' = "rdupdate"
    /\ bArg' = <<abuf.valid, 0>>
    /\ UNCHANGED <<pvars, layout>>

WrBuf ==
    /\ bpanic = ""
    /\ abuf.some
    /\ bpanic' = wrbuf(abuf).panic
    /\ cbuf' = None
    /\ bOp' = "wrbuf"
    /\ bArg' = <<0, 0>>
    /\ UNCHANGED <<abuf, pvars, layout>>

\* The same calls made through a Box<AlignedBuf> that owns the buffer
BoxRdBuf ==
    /\ bpanic = ""
    /\ abuf.some
    /\ bpanic' = box_rdbuf(abuf).panic
    /\ cbuf' = None
    /\ bOp' = "box_rdbuf"
    /\ bArg' = <<0, 0>>
    /\ UNCHANGED <<abuf, pvars, layout>>

BoxRdUpdate ==
    /\ bpanic = ""
    /\ abuf.some
    /\ \E base \in Sizes, n \in Usize :
           LET o == box_rdupdate(abuf, base, n) IN
           /\ abuf' = IF o.panic = "" THEN o.b ELSE abuf
           /\ bpanic' = o.panic
    /\ cbuf' = None
    /\ bOp' = "box_rdupdate"
    /\ bArg' = <<abuf.valid, 0>>
    /\ UNCHANGED <<pvars, layout>>

BoxWrBuf ==
    /\ bpanic = ""
    /\ abuf.some
    /\ bpanic' = box_wrbuf(abuf).panic
    /\ cbuf' = None
    /\ bOp' = "box_wrbuf"
    /\ bArg' = <<0, 0>>
    /\ UNCHANGED <<abuf, pvars, layout>>

NextBuf ==
    \/ AllocUninit
    \/ AllocZeroed
    \/ FromSlice
    \/ Clone
    \/ DropSource
    \/ RdBufWrite
    \/ RdUpdate
    \/ WrBuf
    \/ BoxRdBuf
    \/ BoxRdUpdate
    \/ BoxWrBuf

SpecBuf == InitBuf /\ [][NextBuf]_vars

\* ----------------------------------------------- aioabi.rs: layout actions
InitAbi ==
    /\ NoBuffers
    /\ pool = new(1).pool
    /\ freelist = new(1).freelist
    /\ used = new(1).used
    /\ next = new(1).next
    /\ panic = ""
    /\ lastOp = "new"
    /\ lastArg = 1
    /\ lastVal = 0
    /\ lastRet = Unit
    /\ prevFreed = NoIdx
    /\ stored = [i \in 0 .. 0 |-> NoVal]
    /\ fresh = 0
    /\ layout \in Layouts

PlaceField ==
    /\ ~layout.done
    /\ layout.pos < Len(layout.fields)
    /\ layout' = place_field(layout)
    /\ UNCHANGED <<pvars, bvars>>

SizeOf ==
    /\ ~layout.done
    /\ layout.pos = Len(layout.fields)
    /\ layout' = size_of(layout)
    /\ UNCHANGED <<pvars, bvars>>

NextAbi ==
    \/ PlaceField
    \/ SizeOf

SpecAbi == InitAbi /\ [][NextAbi]_vars


\* ------------------------------------------------- freelist and its claims
\* The indices met by following the next-free links from index i, for at most
\* fuel steps, stopping at the first index that is not a slot of the pool
RECURSIVE ChainFrom(_, _, _)
ChainFrom(p, i, fuel) ==
    IF fuel = 0 \/ ~(i \in DOMAIN p.pool)
    THEN <<>>
    ELSE <<i>> \o ChainFrom(p, p.pool[i].v, fuel - 1)

\* The index at which that walk stops (or stands when the fuel runs out)
RECURSIVE ChainEnd(_, _, _)
ChainEnd(p, i, fuel) ==
    IF fuel = 0 \/ ~(i \in DOMAIN p.pool)
    THEN i
    ELSE ChainEnd(p, p.pool[i].v, fuel - 1)

FreeChain(p) == ChainFrom(p, p.next, len(p) + 1)

Range(s) == {s[k] : k \in DOMAIN s}

Occupied(p) == {i \in DOMAIN p.pool : p.pool[i].tag = "Alloc"}

C2_CountInvariant ==
    panic = "" =>
        /\ usedOf(Self) = Cardinality(Occupied(Self))
        /\ usedOf(Self) + Len(FreeChain(Self)) = limit(Self)
        /\ avail(Self) = limit(Self) - usedOf(Self)
        /\ avail(Self) = Cardinality(DOMAIN pool \ Occupied(Self))
        /\ Range(FreeChain(Self)) = DOMAIN pool \ Occupied(Self)

C2_Witness ==
    /\ panic = ""
    /\ lastOp = "freeidx"
    /\ usedOf(Self) >= 1
    /\ avail(Self) >= 2

C4_LifoReuse ==
    /\ (lastOp = "allocidx" /\ prevFreed # NoIdx) =>
           /\ panic = ""
           /\ lastRet = Ok(prevFreed)
           /\ pool[prevFreed] = Alloc(lastVal)
    /\ panic = "" =>
           \A i \in Occupied(Self), oc \in BOOLEAN, x \in Values :
               LET f == freeidx(Self, i, oc)
                   a == allocidx(f.p, x)
               IN /\ f.panic = ""
                  /\ a.panic = ""
                  /\ a.ret = Ok(i)
                  /\ a.p.pool[i] = Alloc(x)

C4_Witness ==
    /\ lastOp = "allocidx"
    /\ prevFreed # NoIdx
    /\ prevFreed # 0
    /\ lastRet = Ok(prevFreed)
    /\ avail(Self) >= 1

\* C5: allocidx succeeds exactly when avail() >= 1, fails exactly when
\* used() = limit(), and a returned index is < limit(); from a full pool,
\* freeidx of any Occupied index leaves avail() = 1 and the allocidx after
\* it succeeds and leaves used() = limit().
C5_SustainedCycling ==
    panic = "" =>
        /\ \A x \in Values :
               LET a == allocidx(Self, x) IN
               /\ a.panic = ""
               /\ (a.ret.kind = "Ok") <=> (avail(Self) >= 1)
               /\ (a.ret.kind = "Err") <=> (usedOf(Self) = limit(Self))
               /\ a.ret.kind = "Ok" => a.ret.v < limit(Self)
        /\ usedOf(Self) = limit(Self) =>
               \A i \in Occupied(Self), oc \in BOOLEAN, x \in Values :
                   LET f == freeidx(Self, i, oc)
                       a == allocidx(f.p, x)
                   IN /\ f.panic = ""
                      /\ avail(f.p) = 1
                      /\ a.ret.kind = "Ok"
                      /\ usedOf(a.p) = limit(a.p)
        /\ (lastOp = "allocidx" /\ lastRet.kind = "Ok") => lastRet.v < limit(Self)

C5_Witness ==
    /\ panic = ""
    /\ lastOp = "allocidx"
    /\ lastRet.kind = "Ok"
    /\ prevFreed # NoIdx
    /\ prevFreed # 0
    /\ usedOf(Self) = limit(Self)
    /\ limit(Self) >= 2

C7_FreeSlotFatal ==
    panic = "" =>
        \A i \in Indices, oc \in BOOLEAN, t \in Values :
            LET f == freeidx(Self, i, oc)
                r == index(Self, i)
                w == index_mut(Self, i, t)
                fatal == f.panic # "" /\ r.panic # "" /\ w.panic # ""
                fine == f.panic = "" /\ r.panic = "" /\ w.panic = ""
            IN IF i \in Occupied(Self) THEN fine ELSE fatal

C7_Witness ==
    /\ panic # ""
    /\ lastOp = "index_mut"
    /\ lastArg < len(Self)
    /\ usedOf(Self) = 1
    /\ lastArg - 1 \in Occupied(Self)
    /\ pool[lastArg].tag = "Free"

\* C8: freeptr(a) is freeidx of the slot whose storage contains a: for an
\* address inside Occupied slot i it frees exactly slot i and returns its
\* value; below the origin or at or past the end of the storage it is fatal
\* and leaves the pool as it was.
C8_FreePtrIsFreeIdx ==
    panic = "" =>
        \A a \in Addrs, oc \in BOOLEAN :
            LET r == freeptr(Self, a, oc) IN
            /\ \A i \in DOMAIN pool :
                   (Origin + i * Stride <= a /\ a < Origin + (i + 1) * Stride) =>
                       /\ r = freeidx(Self, i, oc)
                       /\ i \in Occupied(Self) =>
                              /\ r.panic = ""
                              /\ r.ret = Val(pool[i].v)
                              /\ r.p.pool[i].tag = "Free"
                              /\ \A j \in DOMAIN pool \ {i} : r.p.pool[j] = pool[j]
            /\ (a < Origin \/ a >= Origin + len(Self) * Stride) =>
                   /\ r.panic # ""
                   /\ r.p = Self

C8_Witness ==
    /\ panic = ""
    /\ lastOp = "freeptr"
    /\ lastRet.kind = "Val"
    /\ (lastArg - Origin) % Stride # 0
    /\ next = (lastArg - Origin) \div Stride
    /\ next # 0

\* --------------------------------------------------- AlignedBuf's claims
\* C9: the buffer clone() returns has the length and alignment of its
\* source, the source's valid length, and a drainable view equal to the
\* source's.
C9_CloneReproducesValidPrefix ==
    (bOp = "clone" /\ bpanic = "" /\ cbuf.some) =>
        /\ cbuf.len = abuf.len
        /\ cbuf.align = abuf.align
        /\ cbuf.valid = abuf.valid
        /\ wrbuf(cbuf).view = wrbuf(abuf).view

\* C10: every buffer produced by alloc_uninit, alloc, from_slice and clone,
\* and left by any rdupdate, has valid <= len; rdupdate never leaves a valid
\* length beyond len, it is fatal instead; no `valid <= len` assertion fails.
C10_ValidWithinLen ==
    /\ abuf.valid <= abuf.len
    /\ cbuf.valid <= cbuf.len
    /\ bpanic # "assertion failed: self.valid <= self.len"
    /\ (bpanic = "" /\ abuf.some) =>
           /\ rdbuf(abuf).panic = ""
           /\ wrbuf(abuf).panic = ""
           /\ \A base \in Usize, n \in Usize, oc \in BOOLEAN :
                  LET o == rdupdate(abuf, base, n, oc) IN
                  /\ o.panic # "assertion failed: self.valid <= self.len"
                  /\ o.panic = "" => o.b.valid <= o.b.len
                  /\ (base <= abuf.valid /\ base + n > abuf.len /\ base + n <= UsizeMax) =>
                         o.panic # ""

C10_Witness ==
    /\ bOp = "rdupdate"
    /\ bpanic = "assertion failed: base+len <= self.len"
    /\ abuf.some
    /\ abuf.valid < abuf.len
    /\ abuf.len >= 2

\* C11: rdupdate(base, len) with base + len <= the total length sets the
\* valid length V to base + len exactly when base <= V and base + len > V and
\* leaves it V otherwise; it never changes the total length, the alignment or
\* the bytes.
C11_ConfirmFilled ==
    /\ (bpanic = "" /\ abuf.some) =>
           \A base \in Usize, n \in Usize, oc \in BOOLEAN :
               base + n <= abuf.len =>
                   LET o == rdupdate(abuf, base, n, oc) IN
                   /\ o.panic = ""
                   /\ o.b.valid = IF base <= abuf.valid /\ base + n > abuf.valid
                                  THEN base + n
                                  ELSE abuf.valid
                   /\ o.b.len = abuf.len
                   /\ o.b.align = abuf.align
                   /\ o.b.mem = abuf.mem
    /\ (bOp = "rdupdate" /\ bpanic = "") =>
           /\ abuf.valid >= bArg[1]
           /\ abuf.valid <= abuf.len

C11_Witness ==
    /\ bOp = "rdupdate"
    /\ bpanic = ""
    /\ bArg[1] >= 1
    /\ abuf.valid > bArg[1]

\* The powers of two of the word, and the smallest multiple of al >= size
IsPow2(n) == \E k \in 0 .. WordBits - 1 : n = 2 ^ k

LeastMultiple(size, al) == CHOOSE m \in size .. size + al - 1 : m % al = 0

\* C12: for a power-of-two align, the buffer alloc_uninit(size, align)
\* produces has len = the smallest multiple of align >= size, and so has the
\* drainable view of the buffer alloc(size, align) produces; size 0 gives 0.
C12_RoundUpToAlign ==
    /\ (bOp = "alloc_uninit" /\ bpanic = "" /\ abuf.some) =>
           abuf.len = LeastMultiple(bArg[1], bArg[2])
    /\ (bOp = "alloc" /\ bpanic = "" /\ abuf.some) =>
           Len(as_slice(abuf).view) = LeastMultiple(bArg[1], bArg[2])
    /\ bOp = "none" =>
           /\ \A size \in Usize, al \in {a \in Usize : IsPow2(a)}, oc \in BOOLEAN :
                  /\ \A o \in alloc_uninit(size, al, oc) :
                         o.b.some => o.b.len = LeastMultiple(size, al)
                  /\ \A o \in alloc(size, al, oc) :
                         o.b.some => Len(as_slice(o.b).view) = LeastMultiple(size, al)
                  /\ LeastMultiple(size, al) <= UsizeMax =>
                         roundup(size, al) = LeastMultiple(size, al)
           /\ roundup(2, 2) = 2
           /\ roundup(1, 2) = 2
           /\ roundup(3, 2) = 4
           /\ roundup(0, 2) = 0

C12_Witness ==
    /\ bOp = "alloc"
    /\ bpanic = ""
    /\ abuf.some
    /\ bArg = <<1, 2>>
    /\ Len(as_slice(abuf).view) = 2

\* C13: a Box that owns the buffer forwards rdupdate, rdbuf and wrbuf: after
\* rdupdate(base, len) through the box the buffer has the valid length the
\* direct call leaves, and the box's views are the buffer's views.
C13_BoxForwards ==
    (bpanic = "" /\ abuf.some) =>
        /\ \A base \in Usize, n \in Usize, oc \in BOOLEAN :
               LET d == rdupdate(abuf, base, n, oc)
                   b == box_rdupdate(abuf, base, n)
               IN d.panic = "" => (b.panic = "" /\ b.b.valid = d.b.valid)
        /\ box_rdbuf(abuf) = rdbuf(abuf)
        /\ box_wrbuf(abuf) = wrbuf(abuf)

\* data followed by zeros up to length n
ZeroPadded(data, n) == [k \in 1 .. n |-> IF k <= Len(data) THEN data[k] ELSE 0]

\* What C14 says of the buffer b that from_slice(data, al) produced
FromSliceOk(b, data, al) ==
    /\ b.len = LeastMultiple(Len(data), al)
    /\ b.align = al
    /\ b.valid = b.len
    /\ \A k \in 1 .. Len(data) : b.mem[k] = data[k]
    /\ \A k \in Len(data) + 1 .. b.len : b.mem[k] = 0
    /\ as_slice(b).panic = ""
    /\ as_slice(b).view = ZeroPadded(data, LeastMultiple(Len(data), al))

\* C14: the buffer from_slice(bytes, align) produces, align a power of two,
\* has len = the smallest multiple of align >= len(bytes), valid = len, bytes
\* as its first len(bytes) bytes and zeros after them.
C14_FromSlice ==
    /\ (bOp = "from_slice" /\ bpanic = "" /\ abuf.some) =>
           FromSliceOk(abuf, bArg[3], bArg[2])
    /\ bOp = "none" =>
           \A data \in Datas, al \in {a \in Usize : IsPow2(a)}, oc \in BOOLEAN :
               \A o \in from_slice(data, al, oc) :
                   o.b.some => FromSliceOk(o.b, data, al)

C14_Witness ==
    /\ bOp = "from_slice"
    /\ bpanic = ""
    /\ abuf.some
    /\ bArg[2] = 2
    /\ bArg[3] = <<1>>
    /\ abuf.mem = <<1, 0>>

\* The two failures of alloc_uninit that reject the alignment
AlignPanics == {"assertion failed: align > 0", "assertion failed: ispower2(align)"}

\* The three allocation entry points
AllocOps == {"alloc_uninit", "alloc", "from_slice"}

\* What C15 says of one outcome o of an allocation called with alignment al
AlignChecked(o, al) ==
    IF IsPow2(al)
    THEN o.panic \notin AlignPanics
    ELSE o.panic \in AlignPanics /\ ~o.b.some

\* C15: alloc_uninit, alloc and from_slice are fatal and produce no buffer when
\* align is 0 or not a power of two, and never fail on the alignment when
\* align is a power of two; the test align > 0 /\ ispower2(align) agrees with
\* "align is 2^k" for every align of the word.
C15_AlignPrecondition ==
    /\ bOp \in AllocOps =>
           AlignChecked([b |-> abuf, panic |-> bpanic], bArg[2])
    /\ bOp = "none" =>
           /\ \A al \in Usize : (al > 0 /\ ispower2(al)) <=> IsPow2(al)
           /\ \A al \in Usize, oc \in BOOLEAN :
                  /\ \A size \in Sizes :
                         /\ \A o \in alloc_uninit(size, al, oc) : AlignChecked(o, al)
                         /\ \A o \in alloc(size, al, oc) : AlignChecked(o, al)
                  /\ \A data \in Datas :
                         \A o \in from_slice(data, al, oc) : AlignChecked(o, al)

C15_Witness ==
    /\ bOp \in AllocOps
    /\ bArg[2] = 3
    /\ bpanic = "assertion failed: ispower2(align)"
    /\ ~abuf.some

\* C16: laid out in declaration order with natural alignment,
\* Struct_io_event takes exactly 32 bytes and Struct_iocb exactly 64, with no
\* padding between or after the fields.
C16_DescriptorSizes ==
    /\ layout.name \in {"Struct_iocb", "Struct_io_event"} => layout.padding = 0
    /\ (layout.done /\ layout.name = "Struct_io_event") =>
           /\ layout.size = 32
           /\ layout.fields = <<8, 8, 8, 8>>
    /\ (layout.done /\ layout.name = "Struct_iocb") =>
           /\ layout.size = 64
           /\ layout.fields = <<8, 4, 4, 2, 2, 4, 8, 8, 8, 8, 4, 4>>

C16_Witness ==
    /\ layout.done
    /\ layout.name = "Struct_iocb"
    /\ layout.pos = 12
    /\ layout.size = 64

\* C17: as long as only occupied indices are released, allocidx never returns
\* an index that is occupied when it is called, and its panic "Pool slot
\* already contains a value" is never raised.
C17_HandleUnique ==
    /\ panic # "Pool slot already contains a value"
    /\ panic = "" =>
           \A init \in Values :
               LET r == allocidx(Self, init)
               IN /\ r.panic = ""
                  /\ r.ret.kind = "Ok" =>
                         /\ r.ret.v \in DOMAIN pool
                         /\ pool[r.ret.v].tag = "Free"
                         /\ r.ret.v \notin Occupied(Self)
    /\ (lastOp = "allocidx" /\ lastRet.kind = "Ok") =>
           /\ panic = ""
           /\ pool[lastRet.v] = Alloc(lastVal)

C17_Witness ==
    /\ lastOp = "allocidx"
    /\ lastRet.kind = "Ok"
    /\ prevFreed = lastRet.v
    /\ used >= 2
    /\ \E j \in Occupied(Self) : j # lastRet.v

\* The Occupied slots other than i are in q as they are in the pool
OthersKept(q, i) ==
    \A j \in Occupied(Self) \ {i} : q.pool[j] = pool[j]

\* C18: freeidx(i) and the indexed read of i return the value most recently
\* stored in slot i, by the allocidx that returned i or by a later indexed
\* write; allocidx, freeidx and an indexed write on i leave every other
\* Occupied slot as it was.
C18_StoredValueIntegrity ==
    panic = "" =>
        /\ DOMAIN stored = DOMAIN pool
        /\ \A i \in DOMAIN pool :
               /\ pool[i].tag = "Alloc" <=> stored[i] # NoVal
               /\ pool[i].tag = "Alloc" => pool[i].v = stored[i]
        /\ \A i \in Occupied(Self) :
               /\ index(Self, i).ret = Val(stored[i])
               /\ index(Self, i).p = Self
               /\ \A oc \in BOOLEAN :
                      /\ freeidx(Self, i, oc).ret = Val(stored[i])
                      /\ freeptr(Self, Origin + i * Stride, oc).ret = Val(stored[i])
                      /\ OthersKept(freeidx(Self, i, oc).p, i)
               /\ \A t \in Values :
                      /\ index_mut(Self, i, t).p.pool[i] = Alloc(t)
                      /\ OthersKept(index_mut(Self, i, t).p, i)
        /\ \A t \in Values :
               LET r == allocidx(Self, t)
               IN r.ret.kind = "Ok" =>
                      /\ r.p.pool[r.ret.v] = Alloc(t)
                      /\ OthersKept(r.p, r.ret.v)

C18_Witness ==
    /\ panic = ""
    /\ lastOp = "freeidx"
    /\ lastRet = Val(1)
    /\ stored[lastArg] = NoVal
    /\ \E j \in Occupied(Self) : stored[j] = 0 /\ pool[j] = Alloc(0)

\* C19: a freeidx(idx) that is fatal because idx < len names a Free slot
\* leaves used, the cursor and every slot as they were before the call.
C19_RejectedReleaseUnchanged ==
    [][(/\ lastOp' = "freeidx"
        /\ panic' # ""
        /\ lastArg' < len(Self)
        /\ pool[lastArg'].tag = "Free")
       => (pool' = pool /\ used' = used /\ next' = next)]_vars

\* The failures of alloc_uninit on a rounding that leaves the word
OverflowPanics == {"attempt to add with overflow", "assertion failed: sz >= size"}

\* What C20 says of one outcome o of alloc_uninit(size, al), al a power of two
RoundUpSafe(o, size, al) ==
    /\ o.b.some => (o.b.len >= size /\ o.b.len % al = 0)
    /\ LeastMultiple(size, al) > UsizeMax =>
           (o.panic \in OverflowPanics /\ ~o.b.some)

\* C20: for a power-of-two align and any size of the word, with size + align
\* - 1 wrapping or trapping, alloc_uninit never produces a buffer whose len is
\* below size or no multiple of align; when the smallest multiple of align >=
\* size does not fit the word the call is fatal and produces no buffer.
C20_RoundUpOverflowSafe ==
    /\ (bOp = "alloc_uninit" /\ IsPow2(bArg[2])) =>
           RoundUpSafe([b |-> abuf, panic |-> bpanic], bArg[1], bArg[2])
    /\ bOp = "none" =>
           \A size \in Usize, al \in {a \in Usize : IsPow2(a)}, oc \in BOOLEAN :
               \A o \in alloc_uninit(size, al, oc) : RoundUpSafe(o, size, al)

C20_Witness ==
    /\ bOp = "alloc_uninit"
    /\ bArg = <<UsizeMax, 2>>
    /\ bpanic = "assertion failed: sz >= size"
    /\ ~abuf.some

====
